---- MODULE Spec2Model ----
(***************************************************************************)
(* Model of `ach` (src/main.rs): the locator parser parse_azure_git_url,   *)
(* and the run of main: AchClient::new, AchClient::pull_request,           *)
(* AchClient::info, AchInfo::display.                                      *)
(*                                                                         *)
(* A Rust String is a sequence of one-character strings, so that regex     *)
(* matching, trimming and integer parsing are computed character by        *)
(* character.                                                              *)
(***************************************************************************)
EXTENDS Integers, Sequences, FiniteSets, TLC

VARIABLES
  \* the locator parser applied to one input
  url,          \* the input string
  parsed,       \* None until parsed, then Some(the Option it returned)
  \* the process environment of a run of main
  origin_cmd,   \* how `git remote get-url origin --all` ends
  head_cmd,     \* how `git rev-parse HEAD` ends
  ado_pat,      \* the environment variable ADO_PAT
  \* the remote service, as the run observes it
  service,      \* None until the pull-request listing is answered
  work_resp,    \* None until the work-item listing is answered
  \* the run of main
  pc,           \* the position in main
  remote_url,   \* AchClient::new: remote_url
  coords,       \* AchClient: org, project, repo
  head,         \* AchClient: head
  client,       \* AchClient: client (built or not)
  prs,          \* pull_request: the listing being iterated
  idx,          \* pull_request: the position in the listing
  pr_result,    \* what pull_request() returned
  info_result,  \* what info() returned
  calls,        \* the remote requests issued, in order
  pending,      \* the remote request awaiting its answer
  stdout,       \* the lines printed to standard output
  exit          \* the exit status of the process

parse_vars == <<url, parsed>>
env_vars == <<origin_cmd, head_cmd, ado_pat>>
run_vars == <<service, work_resp, pc, remote_url, coords, head, client, prs, idx,
              pr_result, info_result, calls, pending, stdout, exit>>
vars == <<parse_vars, env_vars, run_vars>>

\* ------------------------------------------------------------------------
\* Option and Result
\* ------------------------------------------------------------------------
None == [some |-> FALSE]
Some(v) == [some |-> TRUE, v |-> v]
Ok(v) == [ok |-> TRUE, panic |-> FALSE, v |-> v]
Err(e) == [ok |-> FALSE, panic |-> FALSE, e |-> e]
\* a call that did not return: it panicked (expect on None or Err)
Panicked == [ok |-> FALSE, panic |-> TRUE]

\* ------------------------------------------------------------------------
\* String literals of the source
\* ------------------------------------------------------------------------
SshHead == <<"g","i","t","@","s","s","h",".","d","e","v",".","a","z","u","r","e",".","c","o","m",":","v","3","/">>
HttpsScheme == <<"h","t","t","p","s",":","/","/">>
AtHost == <<"@","d","e","v",".","a","z","u","r","e",".","c","o","m","/">>
GitInfix == <<"/","_","g","i","t","/">>
Slash == <<"/">>

\* ------------------------------------------------------------------------
\* regex::Regex, for the two patterns of parse_azure_git_url: a pattern is a
\* sequence of literals and capture groups ([^c]+); `^` fixes the start of
\* the match at the first character and `$` its end after the last one.
\* ------------------------------------------------------------------------
Lit(cs) == [t |-> "lit", cs |-> cs]
Grp(c) == [t |-> "grp", c |-> c]

\* ^git@ssh\.dev\.azure\.com:v3/([^/]+)/([^/]+)/([^/]+)$
ssh_pattern ==
  << Lit(SshHead), Grp("/"), Lit(Slash), Grp("/"), Lit(Slash), Grp("/") >>

\* ^https://([^@]+)@dev\.azure\.com/([^/]+)/([^/]+)/_git/([^/]+)$
https_pattern ==
  << Lit(HttpsScheme), Grp("@"), Lit(AtHost), Grp("/"), Lit(Slash), Grp("/"),
     Lit(GitInfix), Grp("/") >>

StartsAt(s, j, cs) ==
  /\ j + Len(cs) - 1 <= Len(s)
  /\ SubSeq(s, j, j + Len(cs) - 1) = cs

\* the number of characters other than c from position j on
RECURSIVE RunLen(_, _, _)
RunLen(s, j, c) ==
  IF j > Len(s) \/ s[j] = c THEN 0 ELSE 1 + RunLen(s, j + 1, c)

\* a pattern without its closing `$`: the match may end anywhere
AtEndUnanchored(s, j) == TRUE

\* `$`: the match ends at the end of the text (no multi-line mode)
AtEnd(s, j) == j = Len(s) + 1

\* leftmost-first matching: a group takes the longest run first and gives
\* characters back one at a time while the rest of the pattern fails
RECURSIVE MatchFrom(_, _, _, _, _), TryLen(_, _, _, _, _, _)
MatchFrom(pat, i, s, j, caps) ==
  IF i > Len(pat)
    THEN (IF AtEnd(s, j) THEN Some(caps) ELSE None)
    ELSE IF pat[i].t = "lit"
      THEN (IF StartsAt(s, j, pat[i].cs)
              THEN MatchFrom(pat, i + 1, s, j + Len(pat[i].cs), caps)
              ELSE None)
      ELSE TryLen(pat, i, s, j, caps, RunLen(s, j, pat[i].c))

TryLen(pat, i, s, j, caps, n) ==
  IF n = 0
    THEN None
    ELSE LET r == MatchFrom(pat, i + 1, s, j + n,
                            Append(caps, SubSeq(s, j, j + n - 1)))
         IN  IF r.some THEN r ELSE TryLen(pat, i, s, j, caps, n - 1)

\* Regex::captures of a pattern that opens with `^`
captures(pat, s) == MatchFrom(pat, 1, s, 1, <<>>)

\* ------------------------------------------------------------------------
\* str::trim
\* ------------------------------------------------------------------------
IsWhitespace(c) == c \in {" ", "\t", "\n", "\r"}

RECURSIVE trim_start(_)
trim_start(s) ==
  IF s # <<>> /\ IsWhitespace(Head(s)) THEN trim_start(Tail(s)) ELSE s

RECURSIVE trim_end(_)
trim_end(s) ==
  IF s # <<>> /\ IsWhitespace(s[Len(s)])
    THEN trim_end(SubSeq(s, 1, Len(s) - 1))
    ELSE s

\* a trim that forgets the trailing side
trim_leading_only(s) == trim_start(s)

trim(s) == trim_end(trim_start(s))

\* ------------------------------------------------------------------------
\* parse_azure_git_url
\* ------------------------------------------------------------------------
AzureRepoComponents(o, p, r) == [org |-> o, project |-> p, repo |-> r]

\* the HTTPS branch reading the groups from 1, as the SSH branch does
parse_azure_git_url_groups_from_1(u) ==
  LET ssh == captures(ssh_pattern, u)
      https == captures(https_pattern, u)
  IN  IF ssh.some
        THEN Some(AzureRepoComponents(trim(ssh.v[1]), trim(ssh.v[2]), trim(ssh.v[3])))
        ELSE IF https.some
          THEN Some(AzureRepoComponents(trim(https.v[1]), trim(https.v[2]),
                                        trim(https.v[3])))
          ELSE None

parse_azure_git_url(u) ==
  CHOOSE components \in
    { IF ssh.some
        THEN Some(AzureRepoComponents(trim(ssh.v[1]), trim(ssh.v[2]), trim(ssh.v[3])))
        ELSE IF https.some
          THEN Some(AzureRepoComponents(trim(https.v[2]), trim(https.v[3]),
                                        trim(https.v[4])))
          ELSE None
      : ssh \in {captures(ssh_pattern, u)}, https \in {captures(https_pattern, u)} }
    : TRUE

\* ------------------------------------------------------------------------
\* str::parse::<i32>
\* ------------------------------------------------------------------------
I32Max == 2147483647
I32Min == (-I32Max) - 1

Digits == <<"0","1","2","3","4","5","6","7","8","9">>
IsDigit(c) == \E d \in 1..10 : Digits[d] = c
DigitVal(c) == (CHOOSE d \in 1..10 : Digits[d] = c) - 1

\* checked_mul(10), then checked_add (sign = 1) or checked_sub (sign = -1)
RECURSIVE ParseDigits(_, _, _, _)
ParseDigits(s, i, acc, sign) ==
  IF i > Len(s)
    THEN Ok(acc)
    ELSE IF ~IsDigit(s[i])
      THEN Err("InvalidDigit")
      ELSE IF acc > I32Max \div 10
        THEN Err("PosOverflow")
        ELSE IF acc < -(I32Max \div 10)
          THEN Err("NegOverflow")
          ELSE LET d == DigitVal(s[i])
                   m == acc * 10
               IN  IF sign = 1 /\ d > I32Max - m
                     THEN Err("PosOverflow")
                     ELSE IF sign = -1 /\ d - 1 > m + I32Max
                       THEN Err("NegOverflow")
                       ELSE ParseDigits(s, i + 1, m + sign * d, sign)

ParseI32(s) ==
  IF s = <<>>
    THEN Err("Empty")
    ELSE IF s = <<"+">> \/ s = <<"-">>
      THEN Err("InvalidDigit")
      ELSE IF s[1] = "-"
        THEN ParseDigits(s, 2, 0, -1)
        ELSE IF s[1] = "+"
          THEN ParseDigits(s, 2, 0, 1)
          ELSE ParseDigits(s, 1, 0, 1)

\* ------------------------------------------------------------------------
\* The process environment: version control and the credential
\* ------------------------------------------------------------------------
\* Command::output(): the process could not be spawned (an io::Error), or it
\* ran and left an exit status and its standard output (valid UTF-8 or not)
CmdOutcome(sp, st, u8, out) ==
  [spawned |-> sp, status |-> st, utf8 |-> u8, out |-> out]

SshRemote == <<"g","i","t","@","s","s","h",".","d","e","v",".","a","z","u","r","e",".","c","o","m",":","v","3","/","M","y","O","r","g","/","M","y","P","r","o","j","e","c","t","/","M","y","R","e","p","o">>
HttpsRemote == <<"h","t","t","p","s",":","/","/","u","s","e","r","@","d","e","v",".","a","z","u","r","e",".","c","o","m","/","M","y","O","r","g","/","M","y","P","r","o","j","e","c","t","/","_","g","i","t","/","M","y","R","e","p","o">>
OtherRemote == <<"h","t","t","p","s",":","/","/","g","i","t","h","u","b",".","c","o","m","/","u","s","e","r","/","r","e","p","o",".","g","i","t">>
HeadCommit == <<"a","b","c","1","2","3">>
HeadWord == <<"H","E","A","D">>
Newline == <<"\n">>

OriginOutcomes ==
  { CmdOutcome(FALSE, 0, TRUE, <<>>),                     \* git cannot be run
    CmdOutcome(TRUE, 0, FALSE, <<>>),                     \* output is not UTF-8
    CmdOutcome(TRUE, 2, TRUE, <<>>),                      \* no remote `origin`
    CmdOutcome(TRUE, 0, TRUE, SshRemote \o Newline),
    CmdOutcome(TRUE, 0, TRUE, HttpsRemote \o Newline),
    CmdOutcome(TRUE, 0, TRUE, OtherRemote \o Newline) }

HeadOutcomes ==
  { CmdOutcome(FALSE, 0, TRUE, <<>>),                     \* git cannot be run
    CmdOutcome(TRUE, 128, TRUE, HeadWord \o Newline),     \* no commit yet
    CmdOutcome(TRUE, 0, TRUE, HeadCommit \o Newline) }

PatValues == { None, Some("pat") }

\* stdout_str: `?` on the io::Error, expect on the UTF-8 conversion, trim;
\* the exit status is not read
stdout_str(cmd) ==
  IF ~cmd.spawned
    THEN Err("io")
    ELSE IF ~cmd.utf8 THEN Panicked ELSE Ok(trim(cmd.out))

\* git_origin_url and git_head: expect on the Result of stdout_str
git_origin_url(cmd) ==
  LET r == stdout_str(cmd) IN IF r.ok THEN r ELSE Panicked

git_head(cmd) ==
  LET r == stdout_str(cmd) IN IF r.ok THEN r ELSE Panicked

\* ------------------------------------------------------------------------
\* The remote service: the three read-only queries and their answers
\* ------------------------------------------------------------------------
MaxPRs == 3

\* GitPullRequest: pull_request_id (i32) and repository.id; the ids are
\* distinct and in no particular order
GitPullRequest(i) ==
  [pull_request_id |-> ((i * 35 + 7) % 50), repository_id |-> "repo-guid"]

PullRequestList(n) == [i \in 1..n |-> GitPullRequest(i)]

CaseVariant == <<"A","B","C","1","2","3">>
ShortHash == <<"a","b","c","1","2">>
LongHash == <<"a","b","c","1","2","3","4">>
OtherCommit == <<"d","e","f","4","5","6">>

\* get_pull_request_commits: an error, or commits whose commit_id is an
\* Option<String>
CommitResponses ==
  { Err("commits_failed"),
    Err("commits_timed_out"),
    Ok(<<>>),
    Ok(<< Some(HeadCommit) >>),
    Ok(<< Some(OtherCommit), Some(HeadCommit) >>),
    Ok(<< None, Some(HeadCommit), Some(OtherCommit) >>),
    Ok(<< Some(CaseVariant), Some(ShortHash), Some(LongHash) >>) }

\* the service as one run sees it: the listing and, per listed pull request,
\* the answer to its commit-list query
Services ==
  { [list |-> Err("list_failed"), commits |-> <<>>] } \cup
  UNION { { [list |-> Ok(PullRequestList(n)), commits |-> c] :
              c \in [1..n -> CommitResponses] } : n \in 0..MaxPRs }

\* pull_request_work_items_client().list: an error, or resource references
\* whose id is an Option<String>
WorkItemResponses ==
  { Err("work_items_failed"),
    Ok(<<>>),
    Ok(<< Some(<<"1","0","1">>), Some(<<"1","0","2">>) >>),
    Ok(<< Some(<<"1","0","2">>), None, Some(<<"1","0","1">>), Some(<<"1","0","2">>) >>),
    Ok(<< None >>),
    Ok(<< Some(<<"-","7">>), Some(<<"+","5">>) >>),
    Ok(<< Some(<<"2","1","4","7","4","8","3","6","4","7">>) >>),
    Ok(<< Some(<<"1","0","1">>), Some(<<"a","b","c">>) >>),
    Ok(<< Some(<<"2","1","4","7","4","8","3","6","4","8">>) >>),
    Ok(<< Some(<<>>), Some(<<"1","0","1">>) >>),
    Ok(<< Some(<<" ","7">>) >>) }

\* flat_map over Options: the Nones are dropped
RECURSIVE FlatMapOption(_)
FlatMapOption(s) ==
  IF s = <<>>
    THEN <<>>
    ELSE IF Head(s).some
      THEN <<Head(s).v>> \o FlatMapOption(Tail(s))
      ELSE FlatMapOption(Tail(s))

Reverse(q) == [k \in 1..Len(q) |-> q[Len(q) + 1 - k]]

\* a listing handed on in the reverse of the order returned
repo_pull_requets_reversed(svc) ==
  IF svc.list.ok THEN Ok(Reverse(svc.list.v)) ELSE svc.list

\* repo_pull_requets: `?` on the listing, then .value
repo_pull_requets(svc) == svc.list

\* a failed query taken for an empty commit list
pull_request_commit_ids_or_empty(resp) ==
  IF resp.ok THEN Ok(FlatMapOption(resp.v)) ELSE Ok(<<>>)

\* pull_request_commit_ids: `?` on the query, then the commit ids present
pull_request_commit_ids(resp) ==
  IF resp.ok THEN Ok(FlatMapOption(resp.v)) ELSE resp

\* the first occurrence of each element, in order
RECURSIVE Distinct(_)
Distinct(s) ==
  IF s = <<>>
    THEN <<>>
    ELSE LET init == Distinct(SubSeq(s, 1, Len(s) - 1))
             last == s[Len(s)]
         IN  IF \E k \in 1..Len(init) : init[k] = last
               THEN init
               ELSE Append(init, last)

\* an enrichment that drops the references repeated in the listing
pull_request_work_item_ids_distinct(resp) ==
  IF ~resp.ok
    THEN resp
    ELSE LET ids == Distinct(FlatMapOption(resp.v))
         IN  IF \E k \in 1..Len(ids) : ~ParseI32(ids[k]).ok
               THEN Panicked
               ELSE Ok([k \in 1..Len(ids) |-> ParseI32(ids[k]).v])

\* pull_request_work_item_ids: `?` on the query; every id present is parsed
\* as an i32, and expect panics on the first one that does not parse
pull_request_work_item_ids(resp) ==
  IF ~resp.ok
    THEN resp
    ELSE LET ids == FlatMapOption(resp.v)
         IN  IF \E k \in 1..Len(ids) : ~ParseI32(ids[k]).ok
               THEN Panicked
               ELSE Ok([k \in 1..Len(ids) |-> ParseI32(ids[k]).v])

\* a comparison that takes a commit id that the head begins for the head
contains_head_extended(ids, h) ==
  \E k \in 1..Len(ids) :
    Len(h) <= Len(ids[k]) /\ SubSeq(ids[k], 1, Len(h)) = h

LowerCaseLetters == <<"a","b","c","d","e","f">>
UpperCaseLetters == <<"A","B","C","D","E","F">>
ToLower(c) ==
  IF \E d \in 1..Len(UpperCaseLetters) : UpperCaseLetters[d] = c
    THEN LowerCaseLetters[CHOOSE d \in 1..Len(UpperCaseLetters) : UpperCaseLetters[d] = c]
    ELSE c

\* a comparison that ignores the case of the hexadecimal letters
contains_head_ignoring_case(ids, h) ==
  \E k \in 1..Len(ids) :
    /\ Len(ids[k]) = Len(h)
    /\ \A n \in 1..Len(h) : ToLower(ids[k][n]) = ToLower(h[n])

\* a comparison that takes a commit id that begins the head for the head
contains_head_abbreviated(ids, h) ==
  \E k \in 1..Len(ids) :
    Len(ids[k]) <= Len(h) /\ SubSeq(h, 1, Len(ids[k])) = ids[k]

\* the `for commit in ...` loop of pull_request: is some commit equal to head
contains_head(ids, h) == \E k \in 1..Len(ids) : ids[k] = h

\* AchInfo and AchInfo::display
AchInfo(pr, wi) == [pr |-> pr, work_items |-> wi]

\* a display that prints the pull-request line after the work items
display_pull_request_last(info) ==
  [k \in 1..Len(info.work_items) |-> "Work-item #" \o ToString(info.work_items[k])]
  \o << "Pull-request #" \o ToString(info.pr) >>

display(info) ==
  << "Pull-request #" \o ToString(info.pr) >> \o
  [k \in 1..Len(info.work_items) |-> "Work-item #" \o ToString(info.work_items[k])]

\* the remote requests: the query, and the listed pull request it is about
ListRequest == [op |-> "get_pull_requests", pr |-> 0]
CommitsRequest(pr) ==
  [op |-> "get_pull_request_commits", pr |-> pr.pull_request_id]
WorkItemsRequest(pr) ==
  [op |-> "work_items_list", pr |-> pr.pull_request_id]

\* the service's answer to the commit-list query for a listed pull request
CommitsAnswer(svc, pr) ==
  svc.commits[CHOOSE i \in 1..Len(svc.list.v) : svc.list.v[i] = pr]

\* ------------------------------------------------------------------------
\* The run of main
\* ------------------------------------------------------------------------
\* the process ends: a panic (status 101), or main returns Ok (0) or Err (1)
Terminate(status) ==
  /\ pc' = "exited"
  /\ exit' = Some(status)
  /\ pending' = None

\* AchClient::new, line 81: let remote_url = git_origin_url();
NewGitOriginUrl ==
  /\ pc = "new_origin"
  /\ LET r == git_origin_url(origin_cmd)
     IN  IF r.panic
           THEN Terminate(101) /\ UNCHANGED remote_url
           ELSE /\ remote_url' = r.v
                /\ pc' = "new_parse"
                /\ UNCHANGED <<exit, pending>>
  /\ UNCHANGED <<parse_vars, env_vars, service, work_resp, coords, head, client,
                 prs, idx, pr_result, info_result, calls, stdout>>

\* AchClient::new, line 82: parse_azure_git_url(&remote_url).expect(..)
NewParseRemoteUrl ==
  /\ pc = "new_parse"
  /\ \E c \in {parse_azure_git_url(remote_url)} :
       IF ~c.some
         THEN Terminate(101) /\ UNCHANGED coords
         ELSE /\ coords' = c
              /\ pc' = "new_head"
              /\ UNCHANGED <<exit, pending>>
  /\ UNCHANGED <<parse_vars, env_vars, service, work_resp, remote_url, head, client,
                 prs, idx, pr_result, info_result, calls, stdout>>

\* AchClient::new, line 83: let head = git_head();
NewGitHead ==
  /\ pc = "new_head"
  /\ LET r == git_head(head_cmd)
     IN  IF r.panic
           THEN Terminate(101) /\ UNCHANGED head
           ELSE /\ head' = Some(r.v)
                /\ pc' = "new_pat"
                /\ UNCHANGED <<exit, pending>>
  /\ UNCHANGED <<parse_vars, env_vars, service, work_resp, remote_url, coords, client,
                 prs, idx, pr_result, info_result, calls, stdout>>

\* AchClient::new, lines 84-93: std::env::var("ADO_PAT").expect(..), then the
\* client is built
NewCredential ==
  /\ pc = "new_pat"
  /\ IF ~ado_pat.some
       THEN Terminate(101) /\ UNCHANGED client
       ELSE /\ client' = TRUE
            /\ pc' = "list_call"
            /\ UNCHANGED <<exit, pending>>
  /\ UNCHANGED <<parse_vars, env_vars, service, work_resp, remote_url, coords, head,
                 prs, idx, pr_result, info_result, calls, stdout>>

\* main -> info -> pull_request -> repo_pull_requets: the listing is requested
ListPullRequestsCall ==
  /\ pc = "list_call"
  /\ calls' = Append(calls, ListRequest)
  /\ pending' = Some(ListRequest)
  /\ pc' = "list_wait"
  /\ UNCHANGED <<parse_vars, env_vars, service, work_resp, remote_url, coords, head,
                 client, prs, idx, pr_result, info_result, stdout, exit>>

\* a failed listing asked again instead of returned
ListPullRequestsReturnRetrying ==
  /\ pc = "list_wait"
  /\ \E svc \in Services :
       /\ service' = Some(svc)
       /\ LET r == repo_pull_requets(svc)
          IN  IF ~r.ok
                THEN /\ calls' = Append(calls, ListRequest)
                     /\ pending' = Some(ListRequest)
                     /\ UNCHANGED <<prs, idx, pc>>
                ELSE /\ prs' = r.v
                     /\ idx' = 1
                     /\ pc' = "pr_loop"
                     /\ pending' = None
                     /\ UNCHANGED calls
  /\ UNCHANGED <<parse_vars, env_vars, work_resp, remote_url, coords, head, client,
                 pr_result, info_result, stdout, exit>>

\* the listing is answered: `?` returns its error from pull_request, else the
\* for loop starts on the list in the order returned
ListPullRequestsReturn ==
  /\ pc = "list_wait"
  /\ \E svc \in Services :
       /\ service' = Some(svc)
       /\ LET r == repo_pull_requets(svc)
          IN  IF ~r.ok
                THEN /\ pr_result' = Some(r)
                     /\ pc' = "info_resolved"
                     /\ UNCHANGED <<prs, idx>>
                ELSE /\ prs' = r.v
                     /\ idx' = 1
                     /\ pc' = "pr_loop"
                     /\ UNCHANGED pr_result
  /\ pending' = None
  /\ UNCHANGED <<parse_vars, env_vars, work_resp, remote_url, coords, head, client,
                 info_result, calls, stdout, exit>>

\* pull_request, line 146-147: the next pull request of the list, if any, has
\* its commit list requested; the exhausted list gives Ok(None)
NextPullRequest ==
  /\ pc = "pr_loop"
  /\ IF idx > Len(prs)
       THEN /\ pr_result' = Some(Ok(None))
            /\ pc' = "info_resolved"
            /\ UNCHANGED <<calls, pending>>
       ELSE /\ calls' = Append(calls, CommitsRequest(prs[idx]))
            /\ pending' = Some(CommitsRequest(prs[idx]))
            /\ pc' = "commits_wait"
            /\ UNCHANGED pr_result
  /\ UNCHANGED <<parse_vars, env_vars, service, work_resp, remote_url, coords, head,
                 client, prs, idx, info_result, stdout, exit>>

\* a failed commit-list query asked again instead of returned
CommitsReturnRetrying ==
  /\ pc = "commits_wait"
  /\ LET r == pull_request_commit_ids(CommitsAnswer(service.v, prs[idx]))
     IN  IF ~r.ok
           THEN /\ calls' = Append(calls, CommitsRequest(prs[idx]))
                /\ pending' = Some(CommitsRequest(prs[idx]))
                /\ UNCHANGED <<pr_result, pc, idx>>
           ELSE /\ pending' = None
                /\ UNCHANGED calls
                /\ IF contains_head(r.v, head.v)
                     THEN /\ pr_result' = Some(Ok(Some(prs[idx])))
                          /\ pc' = "info_resolved"
                          /\ UNCHANGED idx
                     ELSE /\ idx' = idx + 1
                          /\ pc' = "pr_loop"
                          /\ UNCHANGED pr_result
  /\ UNCHANGED <<parse_vars, env_vars, service, work_resp, remote_url, coords, head,
                 client, prs, info_result, stdout, exit>>

\* a loop that notes the match and scans on: no return on the first match
CommitsReturnScanOn ==
  /\ pc = "commits_wait"
  /\ LET r == pull_request_commit_ids(CommitsAnswer(service.v, prs[idx]))
     IN  IF ~r.ok
           THEN /\ pr_result' = Some(r)
                /\ pc' = "info_resolved"
                /\ UNCHANGED idx
           ELSE /\ pr_result' = IF contains_head(r.v, head.v)
                                  THEN Some(Ok(Some(prs[idx])))
                                  ELSE pr_result
                /\ idx' = idx + 1
                /\ pc' = "pr_loop"
  /\ pending' = None
  /\ UNCHANGED <<parse_vars, env_vars, service, work_resp, remote_url, coords, head,
                 client, prs, info_result, calls, stdout, exit>>

\* pull_request, lines 147-151: the commit list is answered: `?` returns its
\* error, a commit equal to head returns this pull request, else the loop
\* goes on
CommitsReturn ==
  /\ pc = "commits_wait"
  /\ LET r == pull_request_commit_ids(CommitsAnswer(service.v, prs[idx]))
     IN  IF ~r.ok
           THEN /\ pr_result' = Some(r)
                /\ pc' = "info_resolved"
                /\ UNCHANGED idx
           ELSE IF contains_head(r.v, head.v)
             THEN /\ pr_result' = Some(Ok(Some(prs[idx])))
                  /\ pc' = "info_resolved"
                  /\ UNCHANGED idx
             ELSE /\ idx' = idx + 1
                  /\ pc' = "pr_loop"
                  /\ UNCHANGED pr_result
  /\ pending' = None
  /\ UNCHANGED <<parse_vars, env_vars, service, work_resp, remote_url, coords, head,
                 client, prs, info_result, calls, stdout, exit>>

\* info, lines 157-164: `?` on pull_request(), Ok(None) on absence, else the
\* work-item listing of the pull request found is requested
InfoResolved ==
  /\ pc = "info_resolved"
  /\ LET r == pr_result.v
     IN  IF ~r.ok
           THEN /\ info_result' = Some(r)
                /\ pc' = "main_match"
                /\ UNCHANGED <<calls, pending>>
           ELSE IF ~r.v.some
             THEN /\ info_result' = Some(Ok(None))
                  /\ pc' = "main_match"
                  /\ UNCHANGED <<calls, pending>>
             ELSE /\ calls' = Append(calls, WorkItemsRequest(r.v.v))
                  /\ pending' = Some(WorkItemsRequest(r.v.v))
                  /\ pc' = "work_wait"
                  /\ UNCHANGED info_result
  /\ UNCHANGED <<parse_vars, env_vars, service, work_resp, remote_url, coords, head,
                 client, prs, idx, pr_result, stdout, exit>>

\* `?` in place of .unwrap_or(vec![]): the error of the listing is returned
WorkItemsReturnPropagating ==
  /\ pc = "work_wait"
  /\ \E resp \in WorkItemResponses :
       /\ work_resp' = Some(resp)
       /\ LET r == pull_request_work_item_ids(resp)
          IN  IF r.panic
                THEN Terminate(101) /\ UNCHANGED info_result
                ELSE /\ info_result' =
                          IF r.ok
                            THEN Some(Ok(Some(AchInfo(pr_result.v.v.v.pull_request_id,
                                                      r.v))))
                            ELSE Some(r)
                     /\ pc' = "main_match"
                     /\ pending' = None
                     /\ UNCHANGED exit
  /\ UNCHANGED <<parse_vars, env_vars, service, remote_url, coords, head, client,
                 prs, idx, pr_result, calls, stdout>>

\* info, lines 162-170: the work-item listing is answered;
\* .unwrap_or(vec![]) turns an Err into no work items, a panic is not a value
WorkItemsReturn ==
  /\ pc = "work_wait"
  /\ \E resp \in WorkItemResponses :
       /\ work_resp' = Some(resp)
       /\ LET r == pull_request_work_item_ids(resp)
          IN  IF r.panic
                THEN Terminate(101) /\ UNCHANGED info_result
                ELSE /\ info_result' =
                          Some(Ok(Some(AchInfo(pr_result.v.v.v.pull_request_id,
                                               IF r.ok THEN r.v ELSE <<>>))))
                     /\ pc' = "main_match"
                     /\ pending' = None
                     /\ UNCHANGED exit
  /\ UNCHANGED <<parse_vars, env_vars, service, remote_url, coords, head, client,
                 prs, idx, pr_result, calls, stdout>>

\* main, lines 178-183: `?` on info(), then display or `no pr info found`
MainMatch ==
  /\ pc = "main_match"
  /\ LET r == info_result.v
     IN  IF ~r.ok
           THEN Terminate(1) /\ UNCHANGED stdout
           ELSE /\ stdout' = IF r.v.some THEN display(r.v.v)
                                         ELSE << "no pr info found" >>
                /\ Terminate(0)
  /\ UNCHANGED <<parse_vars, env_vars, service, work_resp, remote_url, coords, head,
                 client, prs, idx, pr_result, info_result, calls>>

RunIdle(p) ==
  /\ service = None
  /\ work_resp = None
  /\ pc = p
  /\ remote_url = <<>>
  /\ coords = None
  /\ head = None
  /\ client = FALSE
  /\ prs = <<>>
  /\ idx = 0
  /\ pr_result = None
  /\ info_result = None
  /\ calls = <<>>
  /\ pending = None
  /\ stdout = <<>>
  /\ exit = None

\* the process starts: any environment, nothing done yet
Init ==
  /\ origin_cmd \in OriginOutcomes
  /\ head_cmd \in HeadOutcomes
  /\ ado_pat \in PatValues
  /\ url = <<>>
  /\ parsed = None
  /\ RunIdle("new_origin")

Next ==
  \/ NewGitOriginUrl
  \/ NewParseRemoteUrl
  \/ NewGitHead
  \/ NewCredential
  \/ ListPullRequestsCall
  \/ ListPullRequestsReturn
  \/ NextPullRequest
  \/ CommitsReturn
  \/ InfoResolved
  \/ WorkItemsReturn
  \/ MainMatch

Spec == Init /\ [][Next]_vars

\* every step that can be taken is taken in the end: the program runs on,
\* and every request issued is answered
SpecFair == Spec /\ WF_vars(Next)

\* ------------------------------------------------------------------------
\* The locator parser on its own: one input, parsed once
\* ------------------------------------------------------------------------
MaxSegLen == 2

SeqsUpTo(S, n) == UNION { [1..k -> S] : k \in 0..n }

SegAlphabet == {"a", "B", "-", "_", " ", "@"}
Segs == SeqsUpTo(SegAlphabet, MaxSegLen)
NameSegs == { <<"o","r","g","-","n","a","m","e">>, <<"O","r","g","_","N","a","m","e">> }
FewSegs == { <<"p">>, <<"x","@","d","e","v",".","a","z","u","r","e",".","c","o","m">>, <<>> }
Principals == { <<"u">>, <<"M","y","O","r","g">>, <<"a","/","b">>, <<>>, <<"u","@","v">> }

SshNoV3 == <<"g","i","t","@","s","s","h",".","d","e","v",".","a","z","u","r","e",".","c","o","m",":">>
SshOtherHost == <<"g","i","t","@","s","s","h",".","g","i","t","h","u","b",".","c","o","m",":","v","3","/">>
HttpsNoPrincipal == <<"h","t","t","p","s",":","/","/","d","e","v",".","a","z","u","r","e",".","c","o","m","/">>
HttpsOtherHost == <<"h","t","t","p","s",":","/","/","u","@","g","i","t","h","u","b",".","c","o","m","/">>
HttpsOtherHostNoPrincipal == <<"h","t","t","p","s",":","/","/","g","i","t","h","u","b",".","c","o","m","/">>

\* the inputs written in the program's tests
TestUrls ==
  { <<"g","i","t","@","s","s","h",".","d","e","v",".","a","z","u","r","e",".","c","o","m",":","v","3","/","M","y","O","r","g","/","M","y","P","r","o","j","e","c","t","/","M","y","R","e","p","o">>,
    <<"h","t","t","p","s",":","/","/","M","y","O","r","g","@","d","e","v",".","a","z","u","r","e",".","c","o","m","/","M","y","O","r","g","/","M","y","P","r","o","j","e","c","t","/","_","g","i","t","/","M","y","R","e","p","o">>,
    <<"g","i","t","@","s","s","h",".","d","e","v",".","a","z","u","r","e",".","c","o","m",":","M","y","O","r","g","/","M","y","P","r","o","j","e","c","t","/","M","y","R","e","p","o">>,
    <<"h","t","t","p","s",":","/","/","d","e","v",".","a","z","u","r","e",".","c","o","m","/","M","y","O","r","g","/","M","y","P","r","o","j","e","c","t","/","_","g","i","t","/","M","y","R","e","p","o">>,
    <<"h","t","t","p","s",":","/","/","g","i","t","h","u","b",".","c","o","m","/","u","s","e","r","/","r","e","p","o",".","g","i","t">>,
    <<"g","i","t","@","s","s","h",".","d","e","v",".","a","z","u","r","e",".","c","o","m",":","v","3","/","O","r","g","_","N","a","m","e","/","P","r","o","j","e","c","t","_","N","a","m","e","/","R","e","p","o","_","N","a","m","e">>,
    <<"h","t","t","p","s",":","/","/","o","r","g","-","n","a","m","e","@","d","e","v",".","a","z","u","r","e",".","c","o","m","/","o","r","g","-","n","a","m","e","/","p","r","o","j","-","n","a","m","e","/","_","g","i","t","/","r","e","p","o","-","n","a","m","e">>,
    <<"h","t","t","p","s",":","/","/","u","s","e","r","@","d","e","v",".","a","z","u","r","e",".","c","o","m","/","S","o","m","e","O","r","g","/","S","o","m","e","P","r","o","j","e","c","t","/","_","g","i","t","/","S","o","m","e","R","e","p","o">>,
    <<"h","t","t","p","s",":","/","/","o","r","g","@","d","e","v",".","a","z","u","r","e",".","c","o","m","/","o","r","g","/","p","r","o","j","e","c","t","/","_","g","i","t","/","r","e","p","o","/">>,
    <<>> }

\* locators of the two shapes, one segment ranging over every short string
WellShapedUrls ==
  UNION { UNION { { h \o seg[1] \o Slash \o seg[2] \o j \o seg[3] :
                      seg \in { [others EXCEPT ![k] = s] :
                                  k \in 1..3, s \in Segs } } :
                    others \in [1..3 -> NameSegs] } :
          <<h, j>> \in { <<SshHead, Slash>> } \cup
                       { <<HttpsScheme \o q \o AtHost, GitInfix>> : q \in Principals } }

\* strings near the two shapes: other heads, text before and after
MalformedUrls ==
  { junk \o h \o seg[1] \o Slash \o seg[2] \o j \o seg[3] \o tail :
      junk \in { <<>>, <<"x">> },
      h \in { SshHead, SshNoV3, SshOtherHost, HttpsScheme \o <<"u">> \o AtHost,
              HttpsNoPrincipal, HttpsOtherHost, HttpsOtherHostNoPrincipal },
      seg \in [1..3 -> FewSegs],
      j \in { Slash, GitInfix },
      tail \in { <<>>, Slash, <<"/","x">>, <<"\n">> } }

ParseInputs == TestUrls \cup WellShapedUrls \cup MalformedUrls

InitParse ==
  /\ url \in ParseInputs
  /\ parsed = None
  /\ origin_cmd = CmdOutcome(FALSE, 0, TRUE, <<>>)
  /\ head_cmd = CmdOutcome(FALSE, 0, TRUE, <<>>)
  /\ ado_pat = None
  /\ RunIdle("parse")

\* parse_azure_git_url(url)
ParseUrl ==
  /\ pc = "parse"
  /\ ~parsed.some
  /\ parsed' = Some(parse_azure_git_url(url))
  /\ UNCHANGED <<url, env_vars, run_vars>>

NextParse == ParseUrl

SpecParse == InitParse /\ [][NextParse]_vars

\* ------------------------------------------------------------------------
\* Locators, described by their shape (not by the patterns)
\* ------------------------------------------------------------------------
\* the first position of c in s, or 0
RECURSIVE IndexFrom(_, _, _)
IndexFrom(s, c, j) ==
  IF j > Len(s) THEN 0 ELSE IF s[j] = c THEN j ELSE IndexFrom(s, c, j + 1)

\* the parts of s between the occurrences of c
RECURSIVE Split(_, _)
Split(s, c) ==
  LET k == IndexFrom(s, c, 1)
  IN  IF k = 0
        THEN << s >>
        ELSE << SubSeq(s, 1, k - 1) >> \o Split(SubSeq(s, k + 1, Len(s)), c)

Drop(s, n) == SubSeq(s, n + 1, Len(s))
HasPrefix(s, pre) == Len(pre) <= Len(s) /\ SubSeq(s, 1, Len(pre)) = pre
NonEmptyAll(parts) == \A k \in 1..Len(parts) : parts[k] # <<>>

\* git@ssh.dev.azure.com:v3/<org>/<project>/<repo>
SshSegments(s) == Split(Drop(s, Len(SshHead)), "/")
IsSshLocator(s) ==
  /\ HasPrefix(s, SshHead)
  /\ Len(SshSegments(s)) = 3
  /\ NonEmptyAll(SshSegments(s))

\* https://<principal>@dev.azure.com/<org>/<project>/_git/<repo>
HttpsPrincipalEnd(s) == IndexFrom(s, "@", Len(HttpsScheme) + 1)
HttpsPath(s) == Drop(s, HttpsPrincipalEnd(s) + Len(AtHost) - 1)
HttpsParts(s) == Split(HttpsPath(s), "/")
IsHttpsLocator(s) ==
  /\ HasPrefix(s, HttpsScheme)
  /\ HttpsPrincipalEnd(s) > Len(HttpsScheme) + 1
  /\ HasPrefix(Drop(s, HttpsPrincipalEnd(s) - 1), AtHost)
  /\ Len(HttpsParts(s)) = 4
  /\ HttpsParts(s)[3] = <<"_","g","i","t">>
  /\ NonEmptyAll(HttpsParts(s))
HttpsSegments(s) == << HttpsParts(s)[1], HttpsParts(s)[2], HttpsParts(s)[4] >>

IsLocator(s) == IsSshLocator(s) \/ IsHttpsLocator(s)

\* r is seg without the whitespace around it, and nothing else changed
IsTrimOf(r, seg) ==
  \E a \in 0..Len(seg) : \E b \in 0..(Len(seg) - a) :
    /\ r = SubSeq(seg, a + 1, Len(seg) - b)
    /\ \A k \in 1..a : IsWhitespace(seg[k])
    /\ \A k \in (Len(seg) - b + 1)..Len(seg) : IsWhitespace(seg[k])
    /\ r # <<>> => (~IsWhitespace(r[1]) /\ ~IsWhitespace(r[Len(r)]))

CoordsOf(c, segs) ==
  /\ IsTrimOf(c.org, segs[1])
  /\ IsTrimOf(c.project, segs[2])
  /\ IsTrimOf(c.repo, segs[3])

\* ------------------------------------------------------------------------
\* C4
\* ------------------------------------------------------------------------
WrongSeparator(s) == HasPrefix(s, SshNoV3) /\ ~HasPrefix(s, SshHead)

\* https://dev.azure.com/<org>/<project>/_git/<repo>
NoPrincipal(s) ==
  /\ HasPrefix(s, HttpsNoPrincipal)
  /\ LET parts == Split(Drop(s, Len(HttpsNoPrincipal)), "/")
     IN  Len(parts) = 4 /\ parts[3] = <<"_","g","i","t">> /\ NonEmptyAll(parts)

\* the host named after the scheme (and after the principal, if there is
\* one) is not dev.azure.com
OtherHost(s) ==
  \/ /\ HasPrefix(s, HttpsScheme)
     /\ IF HttpsPrincipalEnd(s) = 0
          THEN ~HasPrefix(s, HttpsNoPrincipal)
          ELSE ~HasPrefix(Drop(s, HttpsPrincipalEnd(s) - 1), AtHost)
  \/ /\ HasPrefix(s, <<"g","i","t","@">>)
     /\ ~HasPrefix(s, SshNoV3)

\* a locator, then a slash, then anything
TrailingAfterLocator(s) ==
  \E n \in 1..(Len(s) - 1) : s[n + 1] = "/" /\ IsLocator(SubSeq(s, 1, n))

\* a locator strictly inside s, s being none itself
MerelyContainsLocator(s) ==
  /\ ~IsLocator(s)
  /\ \E i \in 1..Len(s) :
       /\ HasPrefix(Drop(s, i - 1), SshHead) \/ HasPrefix(Drop(s, i - 1), HttpsScheme)
       /\ \E j \in i..Len(s) : IsLocator(SubSeq(s, i, j))

\* C4: the parser returns an Option on every input, and None on the empty
\* string, on the SSH form without `v3/`, on the HTTPS form without a
\* principal, on another host, on a locator followed by a slash or by more
\* path, and on a string that only contains a locator.
C4_TotalAndAnchored ==
  parsed.some =>
    /\ parsed.v = None \/
         (parsed.v.some /\ DOMAIN parsed.v.v = {"org", "project", "repo"})
    /\ ( \/ url = <<>>
         \/ WrongSeparator(url)
         \/ NoPrincipal(url)
         \/ OtherHost(url)
         \/ TrailingAfterLocator(url)
         \/ MerelyContainsLocator(url) ) => parsed.v = None

C4_Witness ==
  /\ parsed.some
  /\ TrailingAfterLocator(url)
  /\ parsed.v = None

\* ------------------------------------------------------------------------
\* C8
\* ------------------------------------------------------------------------
ValidPrincipals == { q \in Principals : q # <<>> /\ IndexFrom(q, "@", 1) = 0 }

\* C8: an HTTPS-form locator parses to the org, project and repo of its path
\* (trimmed), whatever its principal: every other principal gives the same.
C8_HttpsIgnoresPrincipal ==
  (parsed.some /\ IsHttpsLocator(url)) =>
    /\ parsed.v.some
    /\ CoordsOf(parsed.v.v, HttpsSegments(url))
    /\ \A q \in ValidPrincipals :
         parse_azure_git_url(HttpsScheme \o q \o AtHost \o HttpsPath(url)) = parsed.v

C8_Witness ==
  /\ parsed.some
  /\ IsHttpsLocator(url)
  /\ parsed.v.some
  /\ SubSeq(url, Len(HttpsScheme) + 1, HttpsPrincipalEnd(url) - 1) # HttpsSegments(url)[1]
  /\ parsed.v.v.org = HttpsSegments(url)[1]

\* ------------------------------------------------------------------------
\* C9
\* ------------------------------------------------------------------------
\* C9: an SSH-form locator parses to its three segments in order, each
\* trimmed of surrounding whitespace and otherwise unchanged.
C9_SshSegmentsVerbatim ==
  (parsed.some /\ IsSshLocator(url)) =>
    /\ parsed.v.some
    /\ CoordsOf(parsed.v.v, SshSegments(url))

C9_Witness ==
  /\ parsed.some
  /\ IsSshLocator(url)
  /\ parsed.v.some
  /\ SshSegments(url)[1] = <<"O","r","g","_","N","a","m","e">>
  /\ SshSegments(url)[2] = <<"o","r","g","-","n","a","m","e">>
  /\ SshSegments(url)[3] = <<"B", " ">>
  /\ parsed.v.v = AzureRepoComponents(<<"O","r","g","_","N","a","m","e">>, <<"o","r","g","-","n","a","m","e">>, <<"B">>)

\* ------------------------------------------------------------------------
\* The run, described from the service's side
\* ------------------------------------------------------------------------
Done == pc = "exited"
Resolved == pr_result.some
Listed == service.v.list.v
AnswerAt(i) == service.v.commits[i]

\* the commit list answered for a pull request holds the target commit
ContainsTarget(resp) ==
  resp.ok /\ \E k \in 1..Len(resp.v) : resp.v[k] = Some(head.v)

Matching == { i \in 1..Len(Listed) : ContainsTarget(AnswerAt(i)) }
Least(S) == CHOOSE m \in S : \A x \in S : m <= x

IsCommitsCall(c) == c.op = "get_pull_request_commits"
CommitCalls == SelectSeq(calls, IsCommitsCall)
IndexOfId(id) == CHOOSE i \in 1..Len(Listed) : Listed[i].pull_request_id = id
NoWorkItemsCall == \A k \in 1..Len(calls) : calls[k].op # "work_items_list"

PullRequestLine(id) == "Pull-request #" \o ToString(id)

\* ------------------------------------------------------------------------
\* C1
\* ------------------------------------------------------------------------
\* the listing succeeded and some reference's identifier is no i32
UnparsableReference ==
  /\ work_resp.some
  /\ work_resp.v.ok
  /\ \E k \in 1..Len(work_resp.v.v) :
       work_resp.v.v[k].some /\ ~ParseI32(work_resp.v.v[k].v).ok

\* C1: when the work-item listing of the pull request found succeeds but holds
\* an identifier that is no 32-bit integer, a Report with the pull request id
\* and no work items is still produced, `Pull-request #<id>` is printed and
\* the run ends normally.
C1_PartialSuccessOnParseFailure ==
  (Done /\ UnparsableReference) =>
    /\ info_result = Some(Ok(Some(AchInfo(Listed[Least(Matching)].pull_request_id, <<>>))))
    /\ stdout = << PullRequestLine(Listed[Least(Matching)].pull_request_id) >>
    /\ exit = Some(0)

\* ------------------------------------------------------------------------
\* C2
\* ------------------------------------------------------------------------
IssuedFetchesSucceeded ==
  \A k \in 1..Len(CommitCalls) : AnswerAt(IndexOfId(CommitCalls[k].pr)).ok

\* C2: when the listing and every commit-list query issued succeed and some
\* pull request holds the target commit, pull_request() returns the one of
\* least index in the list as the service returned it.
C2_FirstMatchInServiceOrder ==
  (Resolved /\ service.v.list.ok /\ IssuedFetchesSucceeded /\ Matching # {}) =>
    pr_result.v = Ok(Some(Listed[Least(Matching)]))

C2_Witness ==
  /\ Resolved
  /\ service.v.list.ok
  /\ IssuedFetchesSucceeded
  /\ Cardinality(Matching) >= 2
  /\ Least(Matching) > 1
  /\ pr_result.v = Ok(Some(Listed[Least(Matching)]))

\* ------------------------------------------------------------------------
\* C3
\* ------------------------------------------------------------------------
\* the commit-list query fails for pull request j, reached before any match
FailsAt(j) ==
  /\ ~AnswerAt(j).ok
  /\ \A i \in 1..(j - 1) : AnswerAt(i).ok /\ ~ContainsTarget(AnswerAt(i))

FailedBeforeMatch ==
  /\ service.some
  /\ ~service.v.list.ok \/ \E j \in 1..Len(Listed) : FailsAt(j)

TheError ==
  IF ~service.v.list.ok
    THEN service.v.list
    ELSE AnswerAt(CHOOSE j \in 1..Len(Listed) : FailsAt(j))

\* C3: when the listing fails, or a commit-list query fails before a match,
\* pull_request() and info() return that error, no later pull request is
\* queried, the work-item listing is never requested, nothing is printed
\* and the exit status is not zero.
C3_ResolverErrorsAreFatal ==
  FailedBeforeMatch =>
    /\ Resolved => pr_result.v = TheError
    /\ info_result.some => info_result.v = TheError
    /\ service.v.list.ok =>
         /\ Len(CommitCalls) <= (CHOOSE j \in 1..Len(Listed) : FailsAt(j))
         /\ \A k \in 1..Len(CommitCalls) : CommitCalls[k] = CommitsRequest(Listed[k])
    /\ ~service.v.list.ok => CommitCalls = <<>>
    /\ NoWorkItemsCall
    /\ stdout = <<>>
    /\ Done => (exit.some /\ exit.v # 0)

C3_Witness ==
  /\ Done
  /\ FailedBeforeMatch
  /\ service.v.list.ok
  /\ Matching # {}
  /\ info_result = Some(Err("commits_timed_out"))
  /\ exit = Some(1)

\* ------------------------------------------------------------------------
\* C5
\* ------------------------------------------------------------------------
WorkItemsFailed == work_resp.some /\ ~work_resp.v.ok

\* C5: when the work-item listing of the pull request found fails, info()
\* returns a Report with that pull request's id and no work items, the one
\* line `Pull-request #<id>` is printed and the exit status is zero.
C5_EnrichmentFailureDowngraded ==
  WorkItemsFailed =>
    /\ info_result = Some(Ok(Some(AchInfo(Listed[Least(Matching)].pull_request_id, <<>>))))
    /\ Done => /\ stdout = << PullRequestLine(Listed[Least(Matching)].pull_request_id) >>
               /\ exit = Some(0)
    /\ ~Done => stdout = <<>> /\ exit = None

C5_Witness ==
  /\ Done
  /\ WorkItemsFailed
  /\ stdout = << "Pull-request #42" >>
  /\ exit = Some(0)

\* ------------------------------------------------------------------------
\* C6
\* ------------------------------------------------------------------------
Exhaustion ==
  /\ service.some
  /\ service.v.list.ok
  /\ \A j \in 1..Len(Listed) : AnswerAt(j).ok /\ ~ContainsTarget(AnswerAt(j))

\* C6: when the listing and every commit-list query succeed and no commit
\* list holds the target commit (the empty listing included), pull_request()
\* and info() return absence, the one line `no pr info found` is printed and
\* the exit status is zero.
C6_ExhaustionIsAbsence ==
  Exhaustion =>
    /\ Resolved => pr_result.v = Ok(None)
    /\ info_result.some => info_result.v = Ok(None)
    /\ NoWorkItemsCall
    /\ Done => stdout = << "no pr info found" >> /\ exit = Some(0)
    /\ ~Done => stdout = <<>> /\ exit = None

C6_Witness ==
  /\ Done
  /\ Exhaustion
  /\ head.v = HeadCommit
  /\ Len(Listed) >= 2
  /\ \E j \in 1..Len(Listed) : AnswerAt(j) = Ok(<< Some(CaseVariant), Some(ShortHash), Some(LongHash) >>)
  /\ stdout = << "no pr info found" >>

\* ------------------------------------------------------------------------
\* C7
\* ------------------------------------------------------------------------
\* some pull request holds the target, and every query before it succeeds
ShortCircuitCase ==
  /\ service.some
  /\ service.v.list.ok
  /\ Matching # {}
  /\ \A j \in 1..(Least(Matching) - 1) : AnswerAt(j).ok

\* C7: with the first pull request holding the target at index k, the
\* commit-list queries issued are those of the pull requests 1..k in order
\* and none beyond k, and the result is pull request k whatever the answers
\* (or failures) of the pull requests after k.
C7_ShortCircuitOnFirstMatch ==
  ShortCircuitCase =>
    /\ Len(CommitCalls) <= Least(Matching)
    /\ \A i \in 1..Len(CommitCalls) : CommitCalls[i] = CommitsRequest(Listed[i])
    /\ Resolved => /\ Len(CommitCalls) = Least(Matching)
                   /\ pr_result.v = Ok(Some(Listed[Least(Matching)]))

C7_Witness ==
  /\ Done
  /\ ShortCircuitCase
  /\ Least(Matching) = 2
  /\ Len(Listed) > 2
  /\ ~AnswerAt(3).ok
  /\ Len(CommitCalls) = 2
  /\ pr_result.v = Ok(Some(Listed[2]))

\* ------------------------------------------------------------------------
\* C10
\* ------------------------------------------------------------------------
\* the command gives nothing to go by: it cannot be run, it fails, or its
\* output is no text
Unobtainable(cmd) == ~cmd.spawned \/ cmd.status # 0 \/ ~cmd.utf8

ConfigurationError ==
  \/ ~ado_pat.some
  \/ Unobtainable(origin_cmd)
  \/ Unobtainable(head_cmd)
  \/ ~IsLocator(trim(origin_cmd.out))

\* C10: when the credential is absent, or the remote locator does not parse,
\* or the remote URL or the HEAD commit cannot be obtained, no remote request
\* is issued, nothing is printed and the exit status is not zero.
C10_ConfigErrorsAbortBeforeNetwork ==
  (pc # "parse" /\ ConfigurationError) =>
    /\ calls = <<>>
    /\ stdout = <<>>
    /\ Done => (exit.some /\ exit.v # 0)

\* ------------------------------------------------------------------------
\* C11
\* ------------------------------------------------------------------------
\* the requests issued so far begin the sequence: the listing, the commit
\* lists of the listed pull requests in order, the work items of the match
CallsInOrder ==
  /\ calls # <<>> => calls[1] = ListRequest
  /\ \A k \in 2..Len(calls) :
       /\ calls[k].op # "get_pull_requests"
       /\ IsCommitsCall(calls[k]) =>
            /\ k - 1 <= Len(Listed)
            /\ calls[k] = CommitsRequest(Listed[k - 1])
       /\ calls[k].op = "work_items_list" =>
            /\ k = Len(calls)
            /\ k >= 3
            /\ k - 2 <= Len(Listed)
            /\ ContainsTarget(AnswerAt(k - 2))
            /\ pr_result = Some(Ok(Some(Listed[k - 2])))
            /\ calls[k] = WorkItemsRequest(Listed[k - 2])

\* the request awaiting its answer, if any, is the last one issued
OneOutstanding == pending.some => (calls # <<>> /\ pending.v = calls[Len(calls)])

\* C11: a request is issued only while none is outstanding, and the requests
\* issued are a prefix of: the listing once, the commit list of each listed
\* pull request once and in list order, the work items of the match once;
\* nothing is asked again.
C11_CallsSerializedNeverRepeated ==
  [][ /\ CallsInOrder'
      /\ OneOutstanding'
      /\ calls' # calls =>
           /\ ~pending.some
           /\ pending'.some
           /\ calls' = Append(calls, pending'.v) ]_vars

C11_Witness ==
  /\ Done
  /\ Len(calls) = 4
  /\ calls[4].op = "work_items_list"
  /\ \E k \in 1..Len(Listed) : ~AnswerAt(k).ok

\* ------------------------------------------------------------------------
\* C12
\* ------------------------------------------------------------------------
ReportExists == info_result.some /\ info_result.v.ok /\ info_result.v.v.some
Report == info_result.v.v.v

\* the integers of the references that carry an identifier, in their order
RECURSIVE CarriedIntegers(_)
CarriedIntegers(refs) ==
  IF refs = <<>>
    THEN <<>>
    ELSE IF Head(refs).some
      THEN << ParseI32(Head(refs).v).v >> \o CarriedIntegers(Tail(refs))
      ELSE CarriedIntegers(Tail(refs))

\* C12: a Report exists only when the commit list queried for some pull
\* request held the target commit; its pull request id is that pull
\* request's, and its work items are the integers parsed from that pull
\* request's references, or none.
C12_ReportOnlyOnMatch ==
  ReportExists =>
    /\ service.some /\ service.v.list.ok
    /\ \E m \in 1..Len(Listed) :
         /\ ContainsTarget(AnswerAt(m))
         /\ \E k \in 1..Len(calls) : calls[k] = CommitsRequest(Listed[m])
         /\ Report.pr = Listed[m].pull_request_id
         /\ calls[Len(calls)] = WorkItemsRequest(Listed[m])
    /\ work_resp.some
    /\ \/ Report.work_items = <<>>
       \/ work_resp.v.ok /\ Report.work_items = CarriedIntegers(work_resp.v.v)

C12_Witness ==
  /\ ReportExists
  /\ Report.pr = 27
  /\ Report.work_items = << 101, 102 >>
  /\ ~ContainsTarget(AnswerAt(1))

\* ------------------------------------------------------------------------
\* C13
\* ------------------------------------------------------------------------
WorkItemLine(w) == "Work-item #" \o ToString(w)

AllNumeric ==
  /\ work_resp.some
  /\ work_resp.v.ok
  /\ \A k \in 1..Len(work_resp.v.v) :
       work_resp.v.v[k].some /\ ParseI32(work_resp.v.v[k].v).ok

\* C13: when the pull request found has id P and its work-item listing
\* succeeds with numeric identifiers w1..wn, standard output is the line
\* `Pull-request #P`, then `Work-item #w1` .. `Work-item #wn` in the order
\* returned, and nothing else.
C13_OutputOnMatch ==
  (Done /\ AllNumeric) =>
    LET P == Listed[Least(Matching)].pull_request_id
        w == CarriedIntegers(work_resp.v.v)
    IN  /\ Len(stdout) = 1 + Len(w)
        /\ stdout[1] = PullRequestLine(P)
        /\ \A k \in 1..Len(w) : stdout[k + 1] = WorkItemLine(w[k])
        /\ \A k \in 1..Len(stdout) : stdout[k] # "no pr info found"
        /\ exit = Some(0)

C13_Witness ==
  /\ Done
  /\ AllNumeric
  /\ head.v = HeadCommit
  /\ Matching = {1}
  /\ stdout = << "Pull-request #42", "Work-item #101", "Work-item #102" >>

\* ------------------------------------------------------------------------
\* C14
\* ------------------------------------------------------------------------
\* the commit-list query of the pull request at index i has been answered
Answered(i) ==
  /\ i <= Len(CommitCalls)
  /\ i = Len(CommitCalls) => pending # Some(CommitsRequest(Listed[i]))

\* pull_request() took the pull request at index i to hold the target
TakenAsMatch(i) == pr_result = Some(Ok(Some(Listed[i])))

\* C14: a pull request is taken to hold the target commit exactly when some
\* commit id of its commit list is equal to the target, character for
\* character; an id that differs in case, or is a proper prefix or an
\* extension of the target, gives no match.
C14_ExactCommitEquality ==
  (service.some /\ service.v.list.ok) =>
    \A i \in 1..Len(Listed) :
      (Answered(i) /\ AnswerAt(i).ok) =>
        /\ TakenAsMatch(i) <=> ContainsTarget(AnswerAt(i))
        /\ ~ContainsTarget(AnswerAt(i)) => (idx > i /\ ~TakenAsMatch(i))

C14_Witness ==
  /\ Done
  /\ head.some /\ head.v = HeadCommit
  /\ service.some /\ service.v.list.ok
  /\ Len(Listed) >= 2
  /\ AnswerAt(1) = Ok(<< Some(CaseVariant), Some(ShortHash), Some(LongHash) >>)
  /\ ContainsTarget(AnswerAt(2))
  /\ TakenAsMatch(2)

\* ------------------------------------------------------------------------
\* C15
\* ------------------------------------------------------------------------
ReportPrinted ==
  /\ exit = Some(0)
  /\ stdout # <<>>
  /\ ReportExists
  /\ stdout[1] = PullRequestLine(Report.pr)

NotFoundPrinted == exit = Some(0) /\ stdout = << "no pr info found" >>

FatalAbort == exit.some /\ exit.v # 0 /\ stdout = <<>>

ListedCount == IF service.some /\ service.v.list.ok THEN Len(Listed) ELSE 0

\* the steps of the program that wait for no answer
LocalStep ==
  \/ NewGitOriginUrl
  \/ NewParseRemoteUrl
  \/ NewGitHead
  \/ NewCredential
  \/ ListPullRequestsCall
  \/ NextPullRequest
  \/ InfoResolved
  \/ MainMatch

\* C15: when every request issued is answered, the run ends, with a Report
\* printed, or `no pr info found` printed, or a fatal abort, and exactly one
\* of the three, after at most (listed pull requests + 2) requests; short of
\* its end the run stands still only while a request awaits its answer.
C15_Terminates ==
  /\ <>Done
  /\ [](/\ Len(calls) <= ListedCount + 2
        /\ Done => \/ ReportPrinted /\ ~NotFoundPrinted /\ ~FatalAbort
                   \/ ~ReportPrinted /\ NotFoundPrinted /\ ~FatalAbort
                   \/ ~ReportPrinted /\ ~NotFoundPrinted /\ FatalAbort
        /\ (~Done /\ ~pending.some) => ENABLED LocalStep)

C15_Witness ==
  /\ Done
  /\ ListedCount >= 2
  /\ Len(calls) = ListedCount + 2
  /\ ReportPrinted

\* ------------------------------------------------------------------------
\* C16
\* ------------------------------------------------------------------------
WellFormed(seg) ==
  /\ seg # <<>>
  /\ \A k \in 1..Len(seg) : seg[k] # "/"
  /\ ~IsWhitespace(seg[1])
  /\ ~IsWhitespace(seg[Len(seg)])

\* C16: whenever parse_azure_git_url returns coordinates, each of org,
\* project and repo is non-empty, holds no `/` and has no leading or trailing
\* whitespace.
C16_WellFormedCoordinates ==
  (parsed.some /\ parsed.v.some) =>
    /\ WellFormed(parsed.v.v.org)
    /\ WellFormed(parsed.v.v.project)
    /\ WellFormed(parsed.v.v.repo)

\* ------------------------------------------------------------------------
\* C17
\* ------------------------------------------------------------------------
\* the references of the listing that carry an identifier
Carrying(refs) == { k \in 1..Len(refs) : refs[k].some }

\* C17: when the work-item listing succeeds and every identifier present
\* parses as an integer, the Report's work items are exactly the parsed
\* identifiers of the references that carry one, in the listing's order with
\* duplicates kept; a reference without an identifier adds no entry and does
\* not make the enrichment fail.
C17_EnrichmentKeepsOrderAndMultiplicity ==
  (work_resp.some /\ work_resp.v.ok /\ ~UnparsableReference) =>
    /\ ReportExists
    /\ Report.pr = Listed[Least(Matching)].pull_request_id
    /\ Report.work_items = CarriedIntegers(work_resp.v.v)
    /\ Len(Report.work_items) = Cardinality(Carrying(work_resp.v.v))

C17_Witness ==
  /\ work_resp.some
  /\ work_resp.v.ok
  /\ Len(work_resp.v.v) = 4
  /\ Cardinality(Carrying(work_resp.v.v)) = 3
  /\ ReportExists
  /\ Report.work_items = << 102, 101, 102 >>

====
